---------------------------- MODULE Spec2Model ----------------------------
(***************************************************************************)
(* Model of the email-campaign tracking backend:                           *)
(*   routes/email_send_import.py  upload_email_send_file, email_report     *)
(*   routes/email_tracking.py     track_open, unsubscribe                  *)
(*                                                                         *)
(* Text is a sequence of tokens (a token is a letter, a word or the blank  *)
(* " "), so that strip(), lower() and upper() are computed, not assumed.   *)
(* The MySQL tables are sets of rows; a request's transaction holds its    *)
(* read view and its uncommitted writes until commit or rollback.          *)
(***************************************************************************)
EXTENDS Integers, Sequences, FiniteSets, TLC

(***************************************************************************)
(* Bounds of the model.                                                    *)
(***************************************************************************)
\* longest uploaded file, in rows
MaxRows == 2
\* work done in one behaviour: a file row or a non-import request costs 1
MaxWork == 4
\* the wall clock (epoch seconds) of the first request
T0 == 100

\* track_open: seconds that must have passed since the send
MIN_OPEN_DELAY == 60

Slots == {1, 2}

(***************************************************************************)
(* Text helpers.                                                           *)
(***************************************************************************)
\* Python None / SQL NULL
None == <<"<None>">>

SP == " "

RECURSIVE LStrip(_)
LStrip(s) == IF s # <<>> /\ Head(s) = SP THEN LStrip(Tail(s)) ELSE s

RECURSIVE RStrip(_)
RStrip(s) ==
    IF s # <<>> /\ s[Len(s)] = SP THEN RStrip(SubSeq(s, 1, Len(s) - 1)) ELSE s

\* str.strip()
Strip(s) == RStrip(LStrip(s))

LowerTok(c) ==
    CASE c = "A" -> "a"
      [] c = "R" -> "r"
      [] c = "S" -> "s"
      [] c = "UNSUBSCRIBED" -> "unsubscribed"
      [] c = "Unsubscribed" -> "unsubscribed"
      [] c = "Not Interested" -> "not interested"
      [] c = "No Response Yet" -> "no response yet"
      [] c = "Interested" -> "interested"
      [] c = "SENT" -> "sent"
      [] c = "GOLY" -> "goly"
      [] c = "MPLY" -> "mply"
      [] OTHER -> c

UpperTok(c) ==
    CASE c = "goly" -> "GOLY"
      [] c = "mply" -> "MPLY"
      [] c = "sent" -> "SENT"
      [] c = "a" -> "A"
      [] c = "r" -> "R"
      [] OTHER -> c

\* str.lower()
Lower(s) == [i \in 1..Len(s) |-> LowerTok(s[i])]

\* str.upper()
Upper(s) == [i \in 1..Len(s) |-> UpperTok(s[i])]

\* Python's (x or ""): None and "" are both falsy
OrEmpty(x) == IF x = None THEN <<>> ELSE x

\* Python's (x or None)
OrNone(x) == IF x = <<>> THEN None ELSE x

norm_email(val) == Lower(Strip(OrEmpty(val)))

norm_text(val) == OrNone(Strip(OrEmpty(val)))

\* a check that knows one of the two opt-out answers
is_unsubscribe_response_one(responds) ==
    IF responds = None \/ responds = <<>>
    THEN FALSE
    ELSE Lower(Strip(responds)) = <<"unsubscribed">>

is_unsubscribe_response(responds) ==
    IF responds = None \/ responds = <<>>
    THEN FALSE
    ELSE Lower(Strip(responds)) \in {<<"unsubscribed">>, <<"not interested">>}

is_real_response(responds) ==
    IF responds = None \/ responds = <<>>
    THEN FALSE
    ELSE Lower(Strip(responds)) \notin {<<>>, <<"no response yet">>}

(***************************************************************************)
(* SentAt.  A cell of the SentAt column is its text form: the strptime     *)
(* format it is written in (or none) with the minute and second it shows.  *)
(* A datetime is <<minute, second>> of one fixed day.                      *)
(***************************************************************************)
HMS_FORMATS == {"mdY_HMS", "Ymd_HMS"}
HM_FORMATS == {"mdY_HM", "Ymd_HM"}

\* a parser that reads a send time out of any non-blank cell
parse_sent_at_lenient(val) ==
    IF val.fmt = "blank" THEN None ELSE <<val.mi, val.s>>

\* "blank": the cell is None, NaN or empty after strip()
parse_sent_at(val) ==
    IF val.fmt = "blank" THEN None
    ELSE IF val.fmt \in HMS_FORMATS THEN <<val.mi, val.s>>
    ELSE IF val.fmt \in HM_FORMATS THEN <<val.mi, 0>>
    ELSE None

\* strftime("%Y-%m-%d %H:%M:%S")
strftime(dt) == <<"D1", dt[1], dt[2]>>

\* hashlib.md5(...).hexdigest(), taken as collision free: the digest stands
\* for the text it is computed from
md5(raw) == <<"md5", raw>>

make_dedupe_key(sender, receiver, sent_at, email_type) ==
    IF sent_at = None THEN None
    ELSE md5(<<Lower(Strip(OrEmpty(sender))), Lower(Strip(OrEmpty(receiver))),
               Upper(Strip(OrEmpty(email_type))), strftime(sent_at)>>)

(***************************************************************************)
(* Inputs: the cells a file row may hold, and the rows built from them.    *)
(***************************************************************************)
\* a row of the file: its cells under EXPECTED_HEADERS ("Sender Email" is the
\* field Sender_Email, and so on)
At(f, m, sec) == [fmt |-> f, mi |-> m, s |-> sec]

FileRow(sender, receiver, sent, responds) ==
    [Sender_Email |-> sender, Receiver_Email |-> receiver,
     First_Name |-> <<"Al">>, Company |-> <<>>, Status |-> <<"SENT">>,
     StatusMessage |-> <<"ok", SP>>, SentAt |-> sent, Responds |-> responds,
     Subject |-> <<"Hi">>, Body |-> <<>>]

RowA == FileRow(<<"a">>, <<"r">>, At("Ymd_HMS", 1, 0), <<"No Response Yet">>)
RowB == FileRow(<<"a">>, <<"r">>, At("Ymd_HMS", 2, 0), <<SP, "UNSUBSCRIBED">>)
RowC == FileRow(<<SP, "A">>, <<"R", SP>>, At("mdY_HM", 1, 0), <<"Interested">>)
RowD == FileRow(<<"a">>, <<"r">>, At("junk", 0, 0), <<"Not Interested">>)
RowE == FileRow(<<SP>>, <<"r">>, At("Ymd_HMS", 1, 0), <<"No Response Yet">>)
RowG == FileRow(<<"a">>, <<"r">>, At("Ymd_HM", 2, 0), <<"Interested">>)

FileRows == {RowA, RowB, RowC, RowD, RowE, RowG}

\* the files of at most MaxRows rows
Files == UNION {[1..n -> FileRows] : n \in 0..MaxRows}

\* the email_type form field as sent
EmailTypes == {<<"goly", SP>>, <<"X">>}

\* a file is read only under a valid email_type: one file stands for all
\* under an invalid one
FilesFor(ty) ==
    IF Upper(Strip(OrEmpty(ty))) \in {<<"GOLY">>, <<"MPLY">>}
    THEN Files ELSE {<<RowA>>}

\* the (sender, receiver) values an unsubscribe or pixel request may carry
Senders == {None, <<SP, "A">>}
Receivers == {None, <<"r">>, <<"S", SP>>}

UNSUB_MAIL_MESSAGE == <<"Receiver Unsubscribed via mail">>
UNSUB_LINK_MESSAGE == <<"Receiver unsubscribed via link">>

(***************************************************************************)
(* State.                                                                  *)
(***************************************************************************)
VARIABLES
    logs,    \* table email_send_logs (committed rows)
    prefs,   \* table email_subscription_preferences (committed rows)
    opens,   \* table email_open_events (committed rows)
    now,     \* the wall clock, epoch seconds
    work,    \* work done so far (bounded by MaxWork)
    hist,    \* the latest request received: what it was, what it carried,
             \* its answer and the tables as it found them
    rq       \* per connection slot: the import request it serves

vars == <<logs, prefs, opens, now, work, hist, rq>>

NoView == [taken |-> FALSE, logs |-> {}, prefs |-> {}]

IdleReq ==
    [pc |-> "idle", file |-> <<>>, email_type |-> <<>>, idx |-> 1,
     skipped |-> 0, inserted |-> 0, updated |-> 0, duplicates_no_change |-> 0,
     unsubscribed_override_count |-> 0,
     candidates |-> <<>>, insert_rows |-> <<>>, update_rows |-> <<>>,
     view |-> NoView, tx_prefs |-> <<>>, tx_ins |-> {}, tx_upd |-> <<>>,
     status |-> 0, pre |-> [logs |-> {}, prefs |-> {}], reimport |-> FALSE,
     fail_wrote |-> FALSE, touched |-> FALSE]

PrefRow(s, r, sub, t) ==
    [sender_email |-> s, receiver_email |-> r, is_subscribed |-> sub,
     updated_at |-> t]

\* a send-log row written by another writer of the database: no updated_at
LegacyLog ==
    [id |-> 1, sender_email |-> <<"a">>, receiver_email |-> <<"r">>,
     email_type |-> <<"GOLY">>, first_name |-> <<"Al">>, company |-> None,
     status |-> <<"SENT">>, status_message |-> <<"ok">>,
     sent_at |-> <<1, 0>>, responds |-> <<"No Response Yet">>,
     updated_at |-> None, subject |-> <<"Hi">>, body |-> <<>>,
     dedupe_key |-> make_dedupe_key(<<"a">>, <<"r">>, <<1, 0>>, <<"GOLY">>)]

\* the stored rows the first request may find: <<send logs, preferences>>
Seeds ==
    {<<{}, {}>>,
     <<{}, {PrefRow(<<"a">>, <<"r">>, 0, T0 - 50)}>>,
     <<{LegacyLog}, {PrefRow(<<"a">>, <<"r">>, 1, T0 - 50)}>>}

Init ==
    /\ \E sd \in Seeds : logs = sd[1] /\ prefs = sd[2]
    /\ opens = {}
    /\ now = T0
    /\ work = 0
    /\ hist = [op |-> "none", status |-> 0, body |-> "none", sender |-> None,
               receiver |-> None, k |-> None, st |-> None,
               repeat |-> FALSE, pre |-> [logs |-> {}, prefs |-> {}, opens |-> {}]]
    /\ rq = [p \in Slots |-> IdleReq]

(***************************************************************************)
(* Storage: statements as the handlers issue them.                         *)
(***************************************************************************)
\* a plain INSERT of the opt-out row
PrefUpsert_insert_only(P, s, r, t) == P \cup {PrefRow(s, r, 0, t)}

\* a REPLACE of the whole table by the opt-out row
PrefUpsert_replaces_all(P, s, r, t) == {PrefRow(s, r, 0, t)}

\* INSERT ... ON DUPLICATE KEY UPDATE is_subscribed=0, updated_at=VALUES(..)
\* on the table's unique (sender_email, receiver_email)
PrefUpsert(P, s, r, t) ==
    {x \in P : ~(x.sender_email = s /\ x.receiver_email = r)}
        \cup {PrefRow(s, r, 0, t)}

RECURSIVE PrefUpsertAll(_, _)
PrefUpsertAll(P, w) ==
    IF w = <<>> THEN P
    ELSE PrefUpsertAll(PrefUpsert(P, w[1][1], w[1][2], w[1][3]), Tail(w))

\* SELECT is_subscribed ... WHERE LOWER(TRIM(sender_email))=%s AND
\* LOWER(TRIM(receiver_email))=%s ORDER BY updated_at DESC LIMIT 1:
\* the set of rows fetchone() may return (empty: it returns None)
PrefSelect(P, s, r) ==
    LET m == {x \in P : /\ Lower(Strip(x.sender_email)) = s
                        /\ Lower(Strip(x.receiver_email)) = r}
    IN  IF m = {} THEN {}
        ELSE {CHOOSE x \in m : \A y \in m : y.updated_at <= x.updated_at}

Active(q) == q.pc \in {"build", "insert", "update", "commit"}

\* row locks another open transaction holds
PairLocked(p, s, r) ==
    \E o \in Slots \ {p} :
        /\ Active(rq[o])
        /\ \E i \in 1..Len(rq[o].tx_prefs) :
              rq[o].tx_prefs[i][1] = s /\ rq[o].tx_prefs[i][2] = r

\* a DATETIME value of updated_at
Ts(t) == <<"ts", t>>

\* a check that takes a missing updated_at for a timestamp
IsDatetime_any(x) == TRUE

\* isinstance(x, datetime) of a fetched updated_at
IsDatetime(x) == x # None

\* the uniqueness constraint of email_send_logs on dedupe_key the import's
\* IntegrityError handler answers for
UniqueDedupeKey == TRUE

\* AUTO_INCREMENT id: above every id stored or pending in an open transaction
NextId ==
    LET used == {x.id : x \in logs}
                  \cup UNION {{x.id : x \in rq[o].tx_ins} : o \in Slots}
    IN  IF used = {} THEN 1 ELSE 1 + (CHOOSE m \in used : \A n \in used : n <= m)

\* UPDATE email_send_logs SET first_name=.., .. WHERE id=%s, on one table
\* image; the second component is the statement's rowcount (rows changed)
ApplyUpdate(L, u) ==
    LET hit == {x \in L : x.id = u.id}
        new(x) == [x EXCEPT !.first_name = u.first_name, !.company = u.company,
                            !.status = u.status,
                            !.status_message = u.status_message,
                            !.responds = u.responds,
                            !.updated_at = u.updated_at,
                            !.subject = u.subject, !.body = u.body]
    IN  <<(L \ hit) \cup {new(x) : x \in hit},
          Cardinality({x \in hit : new(x) # x})>>

RECURSIVE ApplyUpdates(_, _)
ApplyUpdates(L, us) ==
    IF us = <<>> THEN <<L, 0>>
    ELSE LET one == ApplyUpdate(L, us[1])
             rest == ApplyUpdates(one[1], Tail(us))
         IN  <<rest[1], one[2] + rest[2]>>

\* conn.commit(): the transaction's writes become the stored rows
CommitLogs(q) == ApplyUpdates(logs, q.tx_upd)[1] \cup q.tx_ins
CommitPrefs(q) == PrefUpsertAll(prefs, q.tx_prefs)

\* a handler that commits what it should roll back
RollbackLogs_commits(q) == CommitLogs(q)
RollbackPrefs_commits(q) == CommitPrefs(q)

\* conn.rollback(), and conn.close() of a transaction never committed
RollbackLogs(q) == logs
RollbackPrefs(q) == prefs

\* the stored tables are not what they were: a request's last step notes it
Touches(L, P) == L # logs \/ P # prefs

(***************************************************************************)
(* upload_email_send_file                                                  *)
(***************************************************************************)
OptedOut_never(pref) == FALSE

\* pref and str(pref.get("is_subscribed")) == "0"
OptedOut(pref) == \E x \in pref : x.is_subscribed = 0

SetRq(p, q) == rq' = [rq EXCEPT ![p] = q]

Cost(f) == IF Len(f) = 0 THEN 1 ELSE Len(f)

NoHist(op) ==
    [op |-> op, status |-> 0, body |-> "none", sender |-> None,
     receiver |-> None, k |-> None, st |-> None, repeat |-> FALSE,
     pre |-> [logs |-> logs, prefs |-> prefs, opens |-> opens]]

\* the request is received: form checks, then the connection is opened
ImportStart(p, f, ty) ==
    LET old == rq[p]
        email_type == Upper(Strip(OrEmpty(ty)))
        again == /\ old.pc = "done" /\ old.status = 200
                 /\ hist.op = "import"
                 /\ old.file = f /\ old.email_type = email_type
        q == [IdleReq EXCEPT !.file = f, !.email_type = email_type,
                             !.pre = [logs |-> logs, prefs |-> prefs],
                             !.reimport = again]
    IN  /\ old.pc \in {"idle", "done"}
        /\ work + Cost(f) <= MaxWork
        /\ work' = work + Cost(f)
        /\ now' = now + 1
        /\ hist' = NoHist("import")
        /\ IF email_type \notin {<<"GOLY">>, <<"MPLY">>}
           THEN SetRq(p, [q EXCEPT !.pc = "done", !.status = 400])
           ELSE SetRq(p, [q EXCEPT !.pc = "build"])
        /\ UNCHANGED <<logs, prefs, opens>>

\* one turn of the loop that builds the candidates
BuildRow(p) ==
    LET q == rq[p]
        r == q.file[q.idx]
        sender_email == norm_email(r.Sender_Email)
        receiver_email == norm_email(r.Receiver_Email)
        first_name == norm_text(r.First_Name)
        company == norm_text(r.Company)
        status == norm_text(r.Status)
        status_message0 == norm_text(r.StatusMessage)
        sent_at == parse_sent_at(r.SentAt)
        subject == norm_text(r.Subject)
        body == norm_text(r.Body)
        responds_value0 == OrNone(Strip(OrEmpty(r.Responds)))
        unsub == is_unsubscribe_response(responds_value0)
        tx_prefs1 == IF unsub
                     THEN Append(q.tx_prefs, <<sender_email, receiver_email, now>>)
                     ELSE q.tx_prefs
        count1 == q.unsubscribed_override_count + (IF unsub THEN 1 ELSE 0)
        status_message1 == IF unsub THEN UNSUB_MAIL_MESSAGE ELSE status_message0
        dkey == make_dedupe_key(sender_email, receiver_email, sent_at,
                                q.email_type)
        \* the first SELECT of the transaction fixes its read view
        view1 == IF q.view.taken THEN q.view
                 ELSE [taken |-> TRUE, logs |-> logs, prefs |-> prefs]
        pref == PrefSelect(PrefUpsertAll(view1.prefs, tx_prefs1),
                           sender_email, receiver_email)
        forced == OptedOut(pref)
        count2 == count1 + (IF forced /\ ~unsub THEN 1 ELSE 0)
        cand == [dedupe_key |-> dkey, sender_email |-> sender_email,
                 receiver_email |-> receiver_email,
                 email_type |-> q.email_type, first_name |-> first_name,
                 company |-> company, status |-> status,
                 status_message |-> IF forced THEN UNSUB_MAIL_MESSAGE
                                    ELSE status_message1,
                 sent_at |-> sent_at,
                 responds |-> IF forced THEN <<"Unsubscribed">>
                              ELSE responds_value0,
                 subject |-> subject, body |-> body]
    IN  /\ q.pc = "build"
        /\ q.idx <= Len(q.file)
        /\ IF sender_email = <<>> \/ receiver_email = <<>>
           THEN SetRq(p, [q EXCEPT !.idx = @ + 1, !.skipped = @ + 1])
           ELSE /\ unsub => ~PairLocked(p, sender_email, receiver_email)
                /\ IF dkey = None
                   THEN SetRq(p, [q EXCEPT !.idx = @ + 1, !.skipped = @ + 1,
                                    !.tx_prefs = tx_prefs1,
                                    !.unsubscribed_override_count = count1])
                   ELSE SetRq(p, [q EXCEPT !.idx = @ + 1,
                                    !.tx_prefs = tx_prefs1,
                                    !.unsubscribed_override_count = count2,
                                    !.view = view1,
                                    !.candidates = Append(@, cand)])
        /\ UNCHANGED <<logs, prefs, opens, now, work, hist>>

\* same(a, b) of the reconciliation loop
same(a, b) == OrNone(a) = OrNone(b)

MUTABLE_FIELDS ==
    {"first_name", "company", "status", "status_message", "responds",
     "subject", "body"}

\* the row existing_map keeps for a key, as a set (empty: no entry)
Existing(L, k) ==
    LET m == {x \in L : x.dedupe_key = k}
    IN  IF m = {} THEN {} ELSE {CHOOSE x \in m : \A y \in m : y.id <= x.id}

\* a comparison that leaves the response out
Changed_but_responds(ex, c) ==
    \E fld \in MUTABLE_FIELDS \ {"responds"} : ~same(ex[fld], c[fld])

\* changed, after the loop over the seven fields
Changed(ex, c) == \E fld \in MUTABLE_FIELDS : ~same(ex[fld], c[fld])

InsertRow(c, t) ==
    [sender_email |-> c.sender_email, receiver_email |-> c.receiver_email,
     email_type |-> c.email_type, first_name |-> c.first_name,
     company |-> c.company, status |-> c.status,
     status_message |-> c.status_message, sent_at |-> c.sent_at,
     responds |-> c.responds, updated_at |-> Ts(t), subject |-> c.subject,
     body |-> c.body, dedupe_key |-> c.dedupe_key]

UpdateRow(c, ex, t) ==
    [first_name |-> c.first_name, company |-> c.company, status |-> c.status,
     status_message |-> c.status_message, responds |-> c.responds,
     updated_at |-> IF ~IsDatetime(ex.updated_at) \/ Changed(ex, c)
                    THEN Ts(t) ELSE ex.updated_at,
     subject |-> c.subject, body |-> c.body, id |-> ex.id]

\* the loop over the candidates: what it queues and counts
RECURSIVE Reconcile(_, _, _, _)
Reconcile(cands, L, t, acc) ==
    IF cands = <<>> THEN acc
    ELSE LET c == Head(cands)
             exs == Existing(L, c.dedupe_key)
             ex == CHOOSE x \in exs : TRUE
         IN  IF exs = {}
             THEN Reconcile(Tail(cands), L, t,
                    [acc EXCEPT !.insert_rows = Append(@, InsertRow(c, t))])
             ELSE IF ~Changed(ex, c) /\ IsDatetime(ex.updated_at)
             THEN Reconcile(Tail(cands), L, t,
                    [acc EXCEPT !.duplicates_no_change = @ + 1])
             ELSE Reconcile(Tail(cands), L, t,
                    [acc EXCEPT !.update_rows = Append(@, UpdateRow(c, ex, t))])

\* the candidates are built: the 400 of a file with no valid row, or the
\* lookup of the stored rows and the reconciliation, up to the first
\* statement that writes
FetchAndReconcile(p) ==
    LET q == rq[p]
        acc == Reconcile(q.candidates, q.view.logs, now,
                 [insert_rows |-> <<>>, update_rows |-> <<>>,
                  duplicates_no_change |-> 0])
    IN  /\ q.pc = "build"
        /\ q.idx > Len(q.file)
        /\ IF q.candidates = <<>>
           THEN /\ SetRq(p, [q EXCEPT !.pc = "done", !.status = 400,
                               !.touched = Touches(RollbackLogs(q),
                                                   RollbackPrefs(q))])
                /\ logs' = RollbackLogs(q)
                /\ prefs' = RollbackPrefs(q)
           ELSE /\ SetRq(p, [q EXCEPT !.pc = IF acc.insert_rows # <<>>
                                             THEN "insert"
                                             ELSE IF acc.update_rows # <<>>
                                             THEN "update" ELSE "commit",
                               !.insert_rows = acc.insert_rows,
                               !.update_rows = acc.update_rows,
                               !.duplicates_no_change = acc.duplicates_no_change])
                /\ UNCHANGED <<logs, prefs>>
        /\ UNCHANGED <<opens, now, work, hist>>

SeqKeys(rows) == {rows[i].dedupe_key : i \in 1..Len(rows)}

\* keys another open transaction has inserted and not committed
KeyLocked(p, keys) ==
    \E o \in Slots \ {p} :
        Active(rq[o]) /\ \E x \in rq[o].tx_ins : x.dedupe_key \in keys

\* ids another open transaction has updated and not committed
IdLocked(p, ids) ==
    \E o \in Slots \ {p} :
        /\ Active(rq[o])
        /\ \E i \in 1..Len(rq[o].tx_upd) : rq[o].tx_upd[i].id \in ids

\* an INSERT that never raises
DuplicateKey_never(rows) == FALSE

\* the INSERT breaks the unique key: a key stored already, or twice in it
DuplicateKey(rows) ==
    /\ UniqueDedupeKey
    /\ \/ \E x \in logs : x.dedupe_key \in SeqKeys(rows)
       \/ \E i, j \in 1..Len(rows) :
             i # j /\ rows[i].dedupe_key = rows[j].dedupe_key

RECURSIVE WithIds(_, _)
WithIds(rows, n) ==
    IF rows = <<>> THEN {}
    ELSE {[id |-> n] @@ Head(rows)} \cup WithIds(Tail(rows), n + 1)

\* cur.executemany(INSERT ...) when inserts are queued; IntegrityError is
\* answered 409 after a rollback
ExecInserts(p) ==
    LET q == rq[p]
    IN  /\ q.pc = "insert"
        /\ IF DuplicateKey(q.insert_rows)
           THEN /\ SetRq(p, [q EXCEPT !.pc = "done", !.status = 409,
                               !.touched = Touches(RollbackLogs(q),
                                                   RollbackPrefs(q))])
                /\ logs' = RollbackLogs(q)
                /\ prefs' = RollbackPrefs(q)
           ELSE /\ ~KeyLocked(p, SeqKeys(q.insert_rows))
                /\ SetRq(p, [q EXCEPT !.pc = IF q.update_rows # <<>>
                                             THEN "update" ELSE "commit",
                               !.tx_ins = WithIds(q.insert_rows, NextId),
                               !.inserted = Len(q.insert_rows)])
                /\ UNCHANGED <<logs, prefs>>
        /\ UNCHANGED <<opens, now, work, hist>>

\* cur.executemany(UPDATE ...) when updates are queued
ExecUpdates(p) ==
    LET q == rq[p]
        ids == {q.update_rows[i].id : i \in 1..Len(q.update_rows)}
    IN  /\ q.pc = "update"
        /\ ~IdLocked(p, ids)
        /\ SetRq(p, [q EXCEPT !.pc = "commit",
                       !.tx_upd = q.update_rows,
                       !.updated = ApplyUpdates(logs, q.update_rows)[2]])
        /\ UNCHANGED <<logs, prefs, opens, now, work, hist>>

\* conn.commit() and the 200 answer
Commit(p) ==
    LET q == rq[p]
    IN  /\ q.pc = "commit"
        /\ logs' = CommitLogs(q)
        /\ prefs' = CommitPrefs(q)
        /\ SetRq(p, [q EXCEPT !.pc = "done", !.status = 200,
                       !.touched = Touches(CommitLogs(q), CommitPrefs(q))])
        /\ UNCHANGED <<opens, now, work, hist>>

\* any other exception once the connection is open: rollback, 500.
\* fail_wrote remembers whether its transaction had written
Fail(p) ==
    LET q == rq[p]
    IN  /\ Active(q)
        /\ logs' = RollbackLogs(q)
        /\ prefs' = RollbackPrefs(q)
        /\ SetRq(p, [IdleReq EXCEPT
                       !.pc = "done", !.status = 500, !.file = q.file,
                       !.email_type = q.email_type, !.pre = q.pre,
                       !.reimport = q.reimport,
                       !.touched = Touches(RollbackLogs(q), RollbackPrefs(q)),
                       !.fail_wrote = \/ q.tx_prefs # <<>>
                                      \/ q.tx_ins # {}
                                      \/ q.tx_upd # <<>>])
        /\ UNCHANGED <<opens, now, work, hist>>

(***************************************************************************)
(* routes/email_tracking.py                                                *)
(***************************************************************************)
\* handlers run one at a time: no import holds a connection
Quiet == \A p \in Slots : ~Active(rq[p])

\* a comparison of the tables' text columns (case-insensitive collation)
SqlEq(a, b) == a # None /\ b # None /\ Lower(a) = Lower(b)

Seconds(dt) == dt[1] * 60 + dt[2]

\* a choice of the row by its id alone
LatestUnanswered_by_id(L, sender, receiver) ==
    LET m == {x \in L : /\ x.sender_email = sender
                        /\ x.receiver_email = receiver
                        /\ x.status = <<"SENT">>
                        /\ x.responds \in {None, <<>>, <<"No Response Yet">>}}
    IN  IF m = {} THEN {}
        ELSE {CHOOSE x \in m : \A y \in m : y.id <= x.id}

\* SELECT id ... WHERE sender_email=%s AND receiver_email=%s AND
\* status='SENT' AND (responds IS NULL OR responds='' OR
\* responds='No Response Yet') ORDER BY sent_at DESC, id DESC LIMIT 1
LatestUnanswered(L, sender, receiver) ==
    LET m == {x \in L : /\ SqlEq(x.sender_email, sender)
                        /\ SqlEq(x.receiver_email, receiver)
                        /\ SqlEq(x.status, <<"SENT">>)
                        /\ \/ x.responds = None
                           \/ x.responds = <<>>
                           \/ SqlEq(x.responds, <<"No Response Yet">>)}
    IN  IF m = {} THEN {}
        ELSE {CHOOSE x \in m : \A y \in m :
                \/ Seconds(y.sent_at) < Seconds(x.sent_at)
                \/ Seconds(y.sent_at) = Seconds(x.sent_at) /\ y.id <= x.id}

\* a statement that deletes the row it should mark
MarkUnsubscribed_deletes(L, sender, receiver, t) ==
    L \ LatestUnanswered(L, sender, receiver)

\* UPDATE email_send_logs SET responds, status_message, updated_at
\* WHERE id = (the latest unanswered SENT row)
MarkUnsubscribed(L, sender, receiver, t) ==
    LET hit == LatestUnanswered(L, sender, receiver)
    IN  (L \ hit)
          \cup {[x EXCEPT !.responds = <<"UNSUBSCRIBED">>,
                          !.status_message = UNSUB_LINK_MESSAGE,
                          !.updated_at = Ts(t)] : x \in hit}

\* POST /unsub.  ok: no exception is raised before the commit
Unsubscribe(from, to, ok) ==
    LET sender == norm_email(from)
        receiver == norm_email(to)
        t == now + 1
        h == [NoHist("unsub_post") EXCEPT
                !.sender = sender, !.receiver = receiver, !.body = "json",
                !.repeat = /\ hist.op = "unsub_post" /\ hist.status = 200
                           /\ hist.sender = sender /\ hist.receiver = receiver]
    IN  /\ Quiet
        /\ work < MaxWork
        /\ work' = work + 1
        /\ now' = t
        /\ IF sender = <<>> \/ receiver = <<>>
           THEN /\ hist' = [h EXCEPT !.status = 400]
                /\ UNCHANGED <<logs, prefs>>
           ELSE IF ok
           THEN /\ prefs' = PrefUpsert(prefs, sender, receiver, t)
                /\ logs' = MarkUnsubscribed(logs, sender, receiver, t)
                /\ hist' = [h EXCEPT !.status = 200]
           ELSE /\ hist' = [h EXCEPT !.status = 500]
                /\ UNCHANGED <<logs, prefs>>
        /\ UNCHANGED <<opens, rq>>

\* GET /unsub: the route is registered for POST only
UnsubscribeGet(from, to) ==
    /\ Quiet
    /\ work < MaxWork
    /\ work' = work + 1
    /\ now' = now + 1
    /\ hist' = [NoHist("unsub_get") EXCEPT
                  !.sender = norm_email(from), !.receiver = norm_email(to),
                  !.status = 405, !.body = "method_not_allowed"]
    /\ UNCHANGED <<logs, prefs, opens, rq>>

DIGITS == {"0", "1", "2", "3", "4", "5", "6", "7", "8", "9"}

DigitVal(c) ==
    CASE c = "0" -> 0 [] c = "1" -> 1 [] c = "2" -> 2 [] c = "3" -> 3
      [] c = "4" -> 4 [] c = "5" -> 5 [] c = "6" -> 6 [] c = "7" -> 7
      [] c = "8" -> 8 [] c = "9" -> 9

AllDigits(s) == s # <<>> /\ \A i \in 1..Len(s) : s[i] \in DIGITS

RECURSIVE Decimal(_)
Decimal(s) ==
    IF s = <<>> THEN 0
    ELSE 10 * Decimal(SubSeq(s, 1, Len(s) - 1)) + DigitVal(s[Len(s)])

\* the texts float() reads here: [-]digits[.digits]
Unsigned(s) ==
    IF \E i \in 1..Len(s) : s[i] = "."
    THEN LET d == CHOOSE i \in 1..Len(s) : s[i] = "."
         IN  <<SubSeq(s, 1, d - 1), SubSeq(s, d + 1, Len(s))>>
    ELSE <<s, <<"0">>>>

IsFloatText(s) ==
    LET u == IF s # <<>> /\ Head(s) = "-" THEN Tail(s) ELSE s
    IN  AllDigits(Unsigned(u)[1]) /\ AllDigits(Unsigned(u)[2])

\* int(float(str(val).strip())), 0 when val is falsy or does not parse
parse_epoch(val) ==
    IF val = None \/ val = <<>> THEN 0
    ELSE LET s == Strip(val)
             neg == s # <<>> /\ Head(s) = "-"
             u == IF neg THEN Tail(s) ELSE s
         IN  IF ~IsFloatText(s) THEN 0
             ELSE IF neg THEN 0 - Decimal(Unsigned(u)[1])
             ELSE Decimal(Unsigned(u)[1])

SendKeys == {<<"k1">>, <<SP>>}

SendEpochs ==
    {None, <<"4", "2">>, <<SP, "4", "3", ".", "9">>, <<"-", "5">>, <<"x">>}

\* a check that lets the last two seconds of the delay through
TooSoon_late(t, st_epoch) == t + 2 < st_epoch + MIN_OPEN_DELAY

\* now < st + 60: the pixel is fetched too soon after the send
TooSoon(t, st_epoch) == t < st_epoch + MIN_OPEN_DELAY

\* GET /open.gif.  dbok: the INSERT and its commit raise nothing
track_open(k, st, from, to, dbok) ==
    LET send_key == Strip(OrEmpty(k))
        st_epoch == parse_epoch(st)
        receiver == norm_email(to)
        sender == norm_email(from)
        t == now + 1
        h == [NoHist("track_open") EXCEPT
                !.status = 200, !.body = "pixel", !.sender = sender,
                !.receiver = receiver, !.k = k, !.st = st]
        record == /\ send_key # <<>>
                  /\ st_epoch > 0
                  /\ ~TooSoon(t, st_epoch)
                  /\ dbok
    IN  /\ Quiet
        /\ work < MaxWork
        /\ work' = work + 1
        /\ now' = t
        /\ opens' = IF record
                    THEN opens \cup {[id |-> Cardinality(opens) + 1,
                                      sender_email |-> sender,
                                      receiver_email |-> receiver,
                                      send_key |-> send_key,
                                      opened_at |-> t]}
                    ELSE opens
        /\ hist' = h
        /\ UNCHANGED <<logs, prefs, rq>>

\* POST /report: reads only
email_report(report_type) ==
    /\ Quiet
    /\ work < MaxWork
    /\ work' = work + 1
    /\ now' = now + 1
    /\ hist' = [NoHist("report") EXCEPT
                  !.body = "json",
                  !.status = IF Lower(OrEmpty(report_type))
                                  \in {<<"sent">>, <<"responds">>}
                             THEN 200 ELSE 400]
    /\ UNCHANGED <<logs, prefs, opens, rq>>

ReportTypes == {<<"sent">>, <<"X">>}

(***************************************************************************)
(* Specifications.                                                         *)
(***************************************************************************)
\* a slot takes an upload when it serves none (ImportStart's own guard,
\* stated ahead of the choice of the file)
ImportStep(p) ==
    \/ /\ ~Active(rq[p]) /\ work < MaxWork
       /\ \E ty \in EmailTypes : \E f \in FilesFor(ty) : ImportStart(p, f, ty)
    \/ BuildRow(p)
    \/ FetchAndReconcile(p)
    \/ ExecInserts(p)
    \/ ExecUpdates(p)
    \/ Commit(p)
    \/ Fail(p)

\* imports and unsubscribes, served one after the other
Next ==
    \/ ImportStep(1)
    \/ Unsubscribe(<<SP, "A">>, <<"r">>, TRUE)

Spec == Init /\ [][Next]_vars

\* the tracking blueprint's requests and the report
NextTrack ==
    \/ \E from \in Senders, to \in Receivers, ok \in BOOLEAN :
          Unsubscribe(from, to, ok)
    \/ \E to \in Receivers : UnsubscribeGet(<<SP, "A">>, to)
    \/ \E k \in SendKeys, st \in SendEpochs, dbok \in BOOLEAN :
          track_open(k, st, <<"a">>, <<"r">>, dbok)
    \/ \E ty \in ReportTypes : email_report(ty)

TrackSpec == Init /\ [][NextTrack]_vars

\* the rows and files two connections upload at the same time
ConcRows == {RowA, RowB, RowC}
ConcFiles == UNION {[1..n -> ConcRows] : n \in 1..MaxRows}

\* two connections serve one import each, their steps interleaved
NextConc ==
    \E p \in Slots :
        \/ /\ rq[p].pc = "idle" /\ work < MaxWork
           /\ \E f \in ConcFiles : ImportStart(p, f, <<"goly", SP>>)
        \/ BuildRow(p)
        \/ FetchAndReconcile(p)
        \/ ExecInserts(p)
        \/ ExecUpdates(p)
        \/ Commit(p)
        \/ Fail(p)

SpecConc == Init /\ [][NextConc]_vars

\* a send-log row as an import stored it, for the sender a
SentLog(id, ty, receiver, mi, status, responds) ==
    [id |-> id] @@
    InsertRow([dedupe_key |-> make_dedupe_key(<<"a">>, receiver, <<mi, 0>>, ty),
               sender_email |-> <<"a">>, receiver_email |-> receiver,
               email_type |-> ty, first_name |-> <<"Al">>, company |-> None,
               status |-> status, status_message |-> <<"ok">>,
               sent_at |-> <<mi, 0>>, responds |-> responds,
               subject |-> <<"Hi">>, body |-> None],
              T0 - 10)

\* the send logs earlier imports may have left: for the pair a -> r three
\* unanswered rows (two of them sent at the same time under two campaign
\* types), an answered one and one that was not sent; one for a -> s
SentLogs ==
    {SentLog(1, <<"GOLY">>, <<"r">>, 2, <<"SENT">>, <<"No Response Yet">>),
     SentLog(2, <<"GOLY">>, <<"r">>, 1, <<"SENT">>, None),
     SentLog(3, <<"MPLY">>, <<"r">>, 2, <<"SENT">>, <<"No Response Yet">>),
     SentLog(4, <<"GOLY">>, <<"r">>, 3, <<"SENT">>, <<"Interested">>),
     SentLog(5, <<"GOLY">>, <<"s">>, 3, <<"SENT">>, <<"No Response Yet">>),
     SentLog(6, <<"GOLY">>, <<"r">>, 4, <<"FAILED">>, <<"No Response Yet">>)}

InitUnsub ==
    /\ logs \in SUBSET SentLogs
    /\ prefs = {}
    /\ opens = {}
    /\ now = T0
    /\ work = 0
    /\ hist = [op |-> "none", status |-> 0, body |-> "none", sender |-> None,
               receiver |-> None, k |-> None, st |-> None,
               repeat |-> FALSE, pre |-> [logs |-> {}, prefs |-> {}, opens |-> {}]]
    /\ rq = [p \in Slots |-> IdleReq]

\* unsubscribe POSTs, one after the other
NextUnsub ==
    \E from \in Senders, to \in Receivers, ok \in BOOLEAN :
       Unsubscribe(from, to, ok)

UnsubSpec == InitUnsub /\ [][NextUnsub]_vars

\* the rows and files of the imports that run among the other requests
LifeRows == {RowA, RowB, RowC, RowD}
LifeFiles == UNION {[1..n -> LifeRows] : n \in 1..MaxRows}

\* every kind of request, served one after the other
NextLife ==
    \/ /\ ~Active(rq[1]) /\ work < MaxWork
       /\ \E f \in LifeFiles : ImportStart(1, f, <<"goly", SP>>)
    \/ BuildRow(1)
    \/ FetchAndReconcile(1)
    \/ ExecInserts(1)
    \/ ExecUpdates(1)
    \/ Commit(1)
    \/ Fail(1)
    \/ \E to \in Receivers \ {None} : Unsubscribe(<<SP, "A">>, to, TRUE)
    \/ track_open(<<"k1">>, <<"4", "2">>, <<"a">>, <<"r">>, TRUE)
    \/ email_report(<<"sent">>)

LifeSpec == Init /\ [][NextLife]_vars

(***************************************************************************)
(* Properties of the import, stated on the file as uploaded and on the     *)
(* tables as the request found and left them.                              *)
(***************************************************************************)
\* the import that slot 1 served is the latest request and has been answered
Answered(q) == hist.op = "import" /\ q.pc = "done"

\* the file was read: the form passed its checks
FileRead(q) == q.email_type \in {<<"GOLY">>, <<"MPLY">>}

HasPair(r) ==
    /\ Strip(OrEmpty(r.Sender_Email)) # <<>>
    /\ Strip(OrEmpty(r.Receiver_Email)) # <<>>

ValidRow(r) == HasPair(r) /\ r.SentAt.fmt \in HMS_FORMATS \cup HM_FORMATS

RowPair(r) == <<norm_email(r.Sender_Email), norm_email(r.Receiver_Email)>>

RowKey(r, ty) ==
    make_dedupe_key(RowPair(r)[1], RowPair(r)[2], parse_sent_at(r.SentAt), ty)

ValidIdx(q) == {i \in 1..Len(q.file) : ValidRow(q.file[i])}

OptedOutIn(P, pair) ==
    \E x \in P : /\ Lower(Strip(x.sender_email)) = pair[1]
                 /\ Lower(Strip(x.receiver_email)) = pair[2]
                 /\ x.is_subscribed = 0

SaysUnsubscribe(cell) ==
    Lower(Strip(OrEmpty(cell))) \in {<<"unsubscribed">>, <<"not interested">>}

\* C1: importing the same file with the same campaign type again, right
\* after a successful import, inserts nothing, updates nothing, counts every
\* valid row as duplicates_no_change and leaves the send logs untouched.
C1_ReimportIsNoOp ==
    LET q == rq[1]
    IN  (Answered(q) /\ q.status = 200 /\ q.reimport)
        => /\ q.inserted = 0
           /\ q.updated = 0
           /\ q.duplicates_no_change = Cardinality(ValidIdx(q))
           /\ logs = q.pre.logs

\* C2: no two send-log records ever share an identity key, whatever
\* imports have run, duplicate rows inside one file included.
C2_DedupeKeyUnique ==
    \A x, y \in logs : x.dedupe_key = y.dedupe_key => x = y

\* a successful import of a file holding the same key twice, into a table of
\* several records
C2_Witness ==
    LET q == rq[1]
    IN  /\ Answered(q) /\ q.status = 200
        /\ \E i, j \in ValidIdx(q) :
              i # j /\ RowKey(q.file[i], q.email_type)
                         = RowKey(q.file[j], q.email_type)
        /\ Cardinality(logs) >= 2

\* C3: the import is one transaction, inserts executed before updates:
\* nothing it writes is stored before its commit, and a request that ends
\* otherwise than in its commit leaves the send logs and the preferences
\* exactly as it found them.
C3_ImportAtomic ==
    LET q == rq[1]
    IN  /\ (Answered(q) /\ q.status # 200)
            => logs = q.pre.logs /\ prefs = q.pre.prefs
        /\ Active(q) => logs = q.pre.logs /\ prefs = q.pre.prefs
        /\ q.pc \in {"build", "insert"} => q.tx_ins = {} /\ q.tx_upd = <<>>
        /\ q.pc = "update" => q.tx_upd = <<>>
        /\ q.pc \in {"update", "commit"}
            => Cardinality(q.tx_ins) = Len(q.insert_rows)

\* an import that failed after its transaction had written
C3_Witness ==
    LET q == rq[1]
    IN  Answered(q) /\ q.status = 500 /\ q.fail_wrote

\* the stored record of a file row
Stored(L, r, ty) == {x \in L : x.dedupe_key = RowKey(r, ty)}

\* C5: once a pair's preference is opted-out, every valid row of that pair
\* in a later import, and every valid row after the opt-out in the same
\* import, is stored with the response 'Unsubscribed' and the fixed message.
C5_OptOutOverride ==
    LET q == rq[1]
    IN  (Answered(q) /\ q.status = 200)
        => \A i \in ValidIdx(q) :
              LET r == q.file[i]
              IN  (\/ OptedOutIn(q.pre.prefs, RowPair(r))
                   \/ \E j \in 1..(i - 1) :
                         /\ HasPair(q.file[j])
                         /\ RowPair(q.file[j]) = RowPair(r)
                         /\ SaysUnsubscribe(q.file[j].Responds))
                  => /\ Stored(logs, r, q.email_type) # {}
                     /\ \A x \in Stored(logs, r, q.email_type) :
                           /\ x.responds = <<"Unsubscribed">>
                           /\ x.status_message = UNSUB_MAIL_MESSAGE

\* a later import brings another response for a pair opted-out before it
C5_Witness ==
    LET q == rq[1]
    IN  /\ Answered(q) /\ q.status = 200
        /\ \E i \in ValidIdx(q) :
              /\ OptedOutIn(q.pre.prefs, RowPair(q.file[i]))
              /\ Strip(q.file[i].Responds) = <<"Interested">>
              /\ \E x \in Stored(logs, q.file[i], q.email_type) :
                    x.responds = <<"Unsubscribed">>

\* C6: a row with an empty sender or receiver, or with a send time that
\* does not parse, is counted in skipped and produces no inserted or updated
\* record; a file with no valid row is answered 400 and writes nothing.
C6_InvalidRowsSkipped ==
    LET q == rq[1]
        valid == ValidIdx(q)
        keys == {RowKey(q.file[i], q.email_type) : i \in valid}
    IN  (Answered(q) /\ FileRead(q) /\ q.status \in {200, 400})
        => /\ q.skipped = Len(q.file) - Cardinality(valid)
           /\ (q.status = 400) <=> (valid = {})
           /\ q.status = 400 => logs = q.pre.logs
           /\ q.status = 200 =>
                 Len(q.insert_rows) + Len(q.update_rows)
                   + q.duplicates_no_change = Cardinality(valid)
           /\ \A x \in logs \ q.pre.logs : x.dedupe_key \in keys

\* a file of a valid and an invalid row is imported: one record, one skipped
C6_Witness ==
    LET q == rq[1]
    IN  /\ Answered(q) /\ q.status = 200
        /\ q.skipped >= 1
        /\ logs # q.pre.logs

\* the seven compared fields as the file row gives them
FileFields(r) ==
    [first_name |-> norm_text(r.First_Name), company |-> norm_text(r.Company),
     status |-> norm_text(r.Status),
     status_message |-> norm_text(r.StatusMessage),
     responds |-> norm_text(r.Responds), subject |-> norm_text(r.Subject),
     body |-> norm_text(r.Body)]

\* every row of the file is valid and has a stored record that differs from
\* it in the response at most
OnlyRespondsDiffers(q) ==
    /\ q.file # <<>>
    /\ \A i \in 1..Len(q.file) :
          LET r == q.file[i]
          IN  /\ ValidRow(r)
              /\ Stored(q.pre.logs, r, q.email_type) # {}
              /\ \A x \in Stored(q.pre.logs, r, q.email_type) :
                    \A fld \in MUTABLE_FIELDS \ {"responds"} :
                       same(x[fld], FileFields(r)[fld])

\* the rows whose response is not the stored one
RespondsChanged(q) ==
    {i \in 1..Len(q.file) :
        \E x \in Stored(q.pre.logs, q.file[i], q.email_type) :
           ~same(x.responds, FileFields(q.file[i]).responds)}

RespondsOnlyCounts(q) ==
    /\ q.inserted = 0
    /\ q.updated = Cardinality(RespondsChanged(q))
    /\ q.duplicates_no_change = Len(q.file) - Cardinality(RespondsChanged(q))

\* the pairs of the file are subscribed: none is opted-out when the import
\* starts and no row of the file carries an opt-out response
NoOptOut(q) ==
    \A i \in 1..Len(q.file) :
       /\ ~OptedOutIn(q.pre.prefs, RowPair(q.file[i]))
       /\ ~SaysUnsubscribe(q.file[i].Responds)

\* the rows of the file have pairwise distinct keys, and their stored
\* records a valid updated_at
PlainMatch(q) ==
    /\ \A i, j \in 1..Len(q.file) :
          i # j => RowKey(q.file[i], q.email_type)
                     # RowKey(q.file[j], q.email_type)
    /\ \A i \in 1..Len(q.file) :
          \A x \in Stored(q.pre.logs, q.file[i], q.email_type) :
             IsDatetime(x.updated_at)

\* C7 as stated: for every subscription state, a file whose rows all match
\* stored records and differ from them only in the response yields
\* inserted = 0 and updated = the number of rows whose response changed
\* (read here for rows of distinct keys and records with a valid updated_at).
C7_AsStated ==
    LET q == rq[1]
    IN  (/\ Answered(q) /\ q.status = 200 /\ OnlyRespondsDiffers(q)
         /\ PlainMatch(q))
        => RespondsOnlyCounts(q)

\* C7: for files of pairwise distinct keys whose rows all match stored
\* records with a valid updated_at and differ from them only in the
\* response, and whose pairs are not opted-out before or by the file,
\* inserted = 0, updated = the number of rows whose response changed, and
\* the other rows are duplicates_no_change.
C7_RespondsOnlyUpdate ==
    LET q == rq[1]
    IN  (/\ Answered(q) /\ q.status = 200 /\ OnlyRespondsDiffers(q)
         /\ NoOptOut(q) /\ PlainMatch(q))
        => RespondsOnlyCounts(q)

\* such a file of two rows, one with a new response: one update, one
\* duplicate
C7_Witness ==
    LET q == rq[1]
    IN  /\ Answered(q) /\ q.status = 200 /\ OnlyRespondsDiffers(q)
        /\ NoOptOut(q) /\ PlainMatch(q)
        /\ q.updated = 1 /\ q.duplicates_no_change = 1

(***************************************************************************)
(* Properties of the tracking blueprint, stated on the latest request.     *)
(***************************************************************************)
PairRows(P, s, r) ==
    {x \in P : /\ Lower(Strip(x.sender_email)) = s
               /\ Lower(Strip(x.receiver_email)) = r}

\* who is subscribed and who is not, whenever it was written
SubscriptionState(P) ==
    {[sender_email |-> x.sender_email, receiver_email |-> x.receiver_email,
      is_subscribed |-> x.is_subscribed] : x \in P}

\* C8: an unsubscribe POST with a sender and a receiver, served without a
\* storage error, leaves the pair opted-out in exactly one preference row,
\* whatever was held before; a second identical POST changes no
\* subscription state.
C8_UnsubscribeOptsOut ==
    (/\ hist.op = "unsub_post" /\ hist.status # 500
     /\ hist.sender # <<>> /\ hist.receiver # <<>>)
    => /\ hist.status = 200
       /\ Cardinality(PairRows(prefs, hist.sender, hist.receiver)) = 1
       /\ \A x \in PairRows(prefs, hist.sender, hist.receiver) :
             x.is_subscribed = 0
       /\ hist.repeat
            => SubscriptionState(prefs) = SubscriptionState(hist.pre.prefs)

\* the second of two identical unsubscribe POSTs has been served
C8_Witness ==
    /\ hist.op = "unsub_post" /\ hist.status = 200 /\ hist.repeat
    /\ prefs # hist.pre.prefs

\* C9: a GET on the unsubscribe endpoint renders the confirmation page and
\* changes neither the preferences nor the send logs.
C9_GetRendersConfirmation ==
    hist.op = "unsub_get"
    => /\ hist.status = 200
       /\ hist.body = "confirm_page"
       /\ prefs = hist.pre.prefs
       /\ logs = hist.pre.logs

\* the send epoch each st value of SendEpochs stands for
SendEpochValue(st) ==
    CASE st = <<"4", "2">> -> 42
      [] st = <<SP, "4", "3", ".", "9">> -> 43
      [] st = <<"-", "5">> -> 0 - 5
      [] OTHER -> 0

\* C10: the pixel endpoint always answers with the pixel, and records at
\* most one open event, only when the send key is not empty, st is a
\* positive epoch and at least 60 seconds have passed since it.
C10_PixelAlwaysReturned ==
    hist.op = "track_open"
    => /\ hist.status = 200 /\ hist.body = "pixel"
       /\ hist.pre.opens \subseteq opens
       /\ Cardinality(opens \ hist.pre.opens) <= 1
       /\ opens # hist.pre.opens
            => /\ Strip(OrEmpty(hist.k)) # <<>>
               /\ SendEpochValue(hist.st) > 0
               /\ now - SendEpochValue(hist.st) >= 60

\* an open is recorded, after requests that recorded none
C10_Witness ==
    /\ hist.op = "track_open"
    /\ Cardinality(opens) = 1 /\ hist.pre.opens = {}
    /\ now > T0 + 1

(***************************************************************************)
(* Properties of two imports served at the same time.                      *)
(***************************************************************************)
FileKeys(q) == {RowKey(q.file[i], q.email_type) : i \in ValidIdx(q)}

StoredKeys(L) == {x.dedupe_key : x \in L}

\* the keys both files hold that no record had when either request came in
SharedNewKeys(q, w) ==
    (FileKeys(q) \cap FileKeys(w)) \ (StoredKeys(q.pre.logs)
                                        \cup StoredKeys(w.pre.logs))

\* both requests are answered, and neither by the generic failure
BothAnswered(q, w) ==
    /\ q.pc = "done" /\ w.pc = "done"
    /\ q.status \in {200, 409} /\ w.status \in {200, 409}

\* q has inserted the record of key k and committed
Inserted(q, k) == q.status = 200 /\ k \in SeqKeys(q.insert_rows)

Reconciled(q) ==
    /\ hist.op = "import"
    /\ \/ q.pc \in {"insert", "update", "commit"}
       \/ q.pc = "done" /\ q.status \in {200, 409}

\* empty and NULL are one value
NullEq(a, b) == (a \in {None, <<>>} /\ b \in {None, <<>>}) \/ a = b

\* the record the request found under a candidate's key
Found(q, c) == {x \in q.pre.logs : x.dedupe_key = c.dedupe_key}

Differs(x, c) ==
    \/ ~NullEq(x.first_name, c.first_name)
    \/ ~NullEq(x.company, c.company)
    \/ ~NullEq(x.status, c.status)
    \/ ~NullEq(x.status_message, c.status_message)
    \/ ~NullEq(x.responds, c.responds)
    \/ ~NullEq(x.subject, c.subject)
    \/ ~NullEq(x.body, c.body)

\* the candidates with no record, with a record that differs, with a record
\* that does not differ
NewCands(q) ==
    {i \in 1..Len(q.candidates) : Found(q, q.candidates[i]) = {}}

DifferingCands(q) ==
    {i \in 1..Len(q.candidates) :
        \E x \in Found(q, q.candidates[i]) : Differs(x, q.candidates[i])}

MatchingCands(q) ==
    {i \in 1..Len(q.candidates) :
        \E x \in Found(q, q.candidates[i]) : ~Differs(x, q.candidates[i])}

\* the matching candidates whose record holds no updated_at
UntimedCands(q) ==
    {i \in MatchingCands(q) :
        \E x \in Found(q, q.candidates[i]) : x.updated_at = None}

\* an insert is queued for the candidate
InsertQueued(q, c) ==
    \E j \in 1..Len(q.insert_rows) :
       LET w == q.insert_rows[j]
       IN  /\ w.dedupe_key = c.dedupe_key
           /\ w.sender_email = c.sender_email
           /\ w.receiver_email = c.receiver_email
           /\ w.email_type = c.email_type /\ w.sent_at = c.sent_at
           /\ ~Differs(w, c)

\* an update of the record x is queued that rewrites the seven fields to the
\* candidate's and sets updated_at to the time of the import
UpdateQueued(q, x, c) ==
    \E j \in 1..Len(q.update_rows) :
       LET u == q.update_rows[j]
       IN  /\ u.id = x.id
           /\ u.first_name = c.first_name /\ u.company = c.company
           /\ u.status = c.status /\ u.status_message = c.status_message
           /\ u.responds = c.responds /\ u.subject = c.subject
           /\ u.body = c.body
           /\ u.updated_at = <<"ts", now>>

\* the decisions on candidates with no record or with a differing one
QueuedAsDecided(q) ==
    /\ \A i \in NewCands(q) : InsertQueued(q, q.candidates[i])
    /\ Len(q.insert_rows) = Cardinality(NewCands(q))
    /\ \A i \in DifferingCands(q) :
          \A x \in Found(q, q.candidates[i]) :
             UpdateQueued(q, x, q.candidates[i])

C11_WitnessDuplicate ==
    LET q == rq[1]
    IN  /\ Reconciled(q) /\ q.status = 200
        /\ DifferingCands(q) # {}
        /\ MatchingCands(q) \ UntimedCands(q) # {}

(***************************************************************************)
(* Properties of the opt-out a file row carries.                           *)
(***************************************************************************)
\* the rows of the file with a sender, a receiver and an opt-out response
OptOutIdx(q) ==
    {i \in 1..Len(q.file) :
        HasPair(q.file[i]) /\ SaysUnsubscribe(q.file[i].Responds)}

PostServed == hist.op = "unsub_post" /\ hist.status = 200

\* the records of the pair that were sent and have no answer
Unanswered(L, s, r) ==
    {x \in L : /\ x.sender_email = s /\ x.receiver_email = r
               /\ x.status = <<"SENT">>
               /\ x.responds \in {None, <<>>, <<"No Response Yet">>}}

\* no record of m was sent later than x, or at the same time under a higher id
IsLatest(x, m) ==
    \A y \in m :
       \/ y.sent_at[1] < x.sent_at[1]
       \/ y.sent_at[1] = x.sent_at[1] /\ y.sent_at[2] < x.sent_at[2]
       \/ y.sent_at = x.sent_at /\ y.id <= x.id

\* the records of L that are not in M as they were
Rewritten(L, M) == {x \in L : x \notin M}

\* C13: an unsubscribe POST inserts no send-log record and changes at most
\* one: when the pair has records with status 'SENT' and a response that is
\* NULL, empty or 'No Response Yet', exactly the one with the latest sent_at
\* (ties by highest id) has its responds, status_message and updated_at
\* rewritten; when it has none the send logs are unchanged.
C13_UnsubscribeLogEffect ==
    hist.op = "unsub_post"
    => LET L0 == hist.pre.logs
           m == Unanswered(L0, hist.sender, hist.receiver)
       IN  /\ {x.id : x \in logs} = {x.id : x \in L0}
           /\ Cardinality(logs) = Cardinality(L0)
           /\ Cardinality(Rewritten(L0, logs)) <= 1
           /\ (hist.status # 200 \/ m = {}) => logs = L0
           /\ (hist.status = 200 /\ m # {})
                => \E x \in m :
                      /\ IsLatest(x, m)
                      /\ Rewritten(L0, logs) = {x}
                      /\ [x EXCEPT !.responds = <<"UNSUBSCRIBED">>,
                                   !.status_message = UNSUB_LINK_MESSAGE,
                                   !.updated_at = <<"ts", now>>] \in logs

\* the pair had two unanswered records sent at the same time and an answered
\* one sent later: the POST rewrote the unanswered one of the higher id
C13_Witness ==
    /\ PostServed
    /\ \E x, y \in Unanswered(hist.pre.logs, hist.sender, hist.receiver) :
          /\ x.sent_at = y.sent_at /\ x.id < y.id
          /\ Rewritten(hist.pre.logs, logs) = {y}
    /\ \E z \in hist.pre.logs :
          /\ z.receiver_email = hist.receiver
          /\ z.responds = <<"Interested">>
          /\ z.sent_at[1] > 2
          /\ z \in logs

\* C16: after one successful unsubscribe POST for a pair, a second identical
\* POST with no operation in between changes the responds and the
\* status_message of no send-log record.
C16_RepeatedPostIdempotent ==
    (PostServed /\ hist.repeat)
    => \A x \in hist.pre.logs :
          \E y \in logs : /\ y.id = x.id
                          /\ y.responds = x.responds
                          /\ y.status_message = x.status_message

(***************************************************************************)
(* Properties of every step of every request.                              *)
(***************************************************************************)
\* the record x is kept by the step, its identity as it was
KeptAs(x, L) ==
    \E y \in L : /\ y.id = x.id
                 /\ y.sender_email = x.sender_email
                 /\ y.receiver_email = x.receiver_email
                 /\ y.email_type = x.email_type
                 /\ y.sent_at = x.sent_at
                 /\ y.dedupe_key = x.dedupe_key

\* C14: no operation (import, unsubscribe POST, pixel request, report)
\* deletes a send-log record, and the sender_email, receiver_email,
\* email_type, sent_at and dedupe_key of a record never change: every step
\* keeps every stored record under its id with these five fields as they
\* were.
C14_SendLogLifecycle ==
    [][\A x \in logs : KeptAs(x, logs')]_vars

\* a record an import has rewritten and an unsubscribe POST has marked is
\* still stored when a pixel request has recorded an open
C14_Witness ==
    /\ hist.op = "track_open" /\ opens # {}
    /\ rq[1].status = 200 /\ rq[1].updated >= 1
    /\ \E x \in logs : /\ x.id = 1
                       /\ x.status_message = UNSUB_LINK_MESSAGE
                       /\ x.dedupe_key = LegacyLog.dedupe_key

\* the pair of the preference row x is opted-out in P, in every row P holds
\* for it
StaysOptedOut(x, P) ==
    /\ \E y \in P : /\ y.sender_email = x.sender_email
                    /\ y.receiver_email = x.receiver_email
    /\ \A y \in P : (/\ y.sender_email = x.sender_email
                     /\ y.receiver_email = x.receiver_email)
                    => y.is_subscribed = 0

\* C17: once a pair's preference is stored as opted-out, no import,
\* unsubscribe POST, pixel request or report makes it subscribed again or
\* removes its row: every step keeps every opted-out pair opted-out.
C17_OptOutMonotone ==
    [][\A x \in prefs : x.is_subscribed = 0 => StaysOptedOut(x, prefs')]_vars

\* a pair opted-out from the start is still opted-out after an import that
\* brought another answer for it, an unsubscribe POST of another pair and a
\* report
C17_Witness ==
    LET q == rq[1]
    IN  /\ hist.op = "report"
        /\ q.status = 200
        /\ OptedOutIn(q.pre.prefs, <<<<"a">>, <<"r">>>>)
        /\ \E i \in ValidIdx(q) : Strip(q.file[i].Responds) = <<"Interested">>
        /\ OptedOutIn(prefs, <<<<"a">>, <<"r">>>>)
        /\ OptedOutIn(prefs, <<<<"a">>, <<"s">>>>)

(***************************************************************************)
(* Properties of the rows an import skips.                                 *)
(***************************************************************************)
\* the rows with a pair that are skipped for their send time
SkippedPairIdx(q) ==
    {i \in 1..Len(q.file) : HasPair(q.file[i]) /\ ~ValidRow(q.file[i])}

\* a valid row of the file opts the pair out
OptedOutByValidRow(q, pair) ==
    \E j \in ValidIdx(q) : /\ RowPair(q.file[j]) = pair
                           /\ SaysUnsubscribe(q.file[j].Responds)

\* C15: a row the import counts as skipped has no effect on the stored
\* state of a committed import; in particular a row with a sender, a
\* receiver, an opt-out Responds and a SentAt that does not parse does not
\* opt the pair out: a pair of such a row is opted-out after the import only
\* if it was before, or if a valid row of the file opts it out.
C15_SkippedRowsInert ==
    LET q == rq[1]
    IN  (Answered(q) /\ q.status = 200)
        => \A i \in SkippedPairIdx(q) :
              OptedOutIn(prefs, RowPair(q.file[i]))
              => \/ OptedOutIn(q.pre.prefs, RowPair(q.file[i]))
                 \/ OptedOutByValidRow(q, RowPair(q.file[i]))

=============================================================================
